---- MODULE Spec2Model ----
(***************************************************************************)
(* Model of custom_requests: the Request session (get/post/head/patch over *)
(* _request), the Response wrapper and the logging exceptions.             *)
(*                                                                         *)
(* One behaviour follows one verb call on a session: the caller may first  *)
(* set the session's allowed_status_codes, then calls a verb; the verb     *)
(* body runs once per attempt of the Retry wrapper; a returned Response    *)
(* may then be read through its json property.                            *)
(*                                                                         *)
(* data, headers, auth and timeout are handed to the transport unchanged   *)
(* and read by no decision of the code; they are left out of the state.    *)
(* Text is kept as the sequence of the pieces an f-string concatenates.    *)
(***************************************************************************)
EXTENDS Integers, Sequences, FiniteSets, TLC

VARIABLES
    allowed_status_codes, \* Request.allowed_status_codes (session default)
    pc,                   \* where the caller's verb call stands
    args,                 \* <<>> or <<the arguments the caller gave the verb>>
    tries,                \* verb body executions started by the Retry wrapper
    sleeps,               \* waits the Retry wrapper has made between attempts
    sent,                 \* <<>> or <<keyword arguments the transport last got>>
    request,              \* <<>> or <<raw response of the attempt>> (the local)
    response,             \* <<>> or <<Response returned to the caller>>
    exc,                  \* <<>> or <<exception raised by the last operation>>
    rootlog,              \* records emitted through logging.getLogger()
    logger,               \* records emitted through the injected self.logger
    json_value            \* <<>> or <<value Response.json returned>>

vars == <<allowed_status_codes, pc, args, tries, sleeps, sent, request,
          response, exc, rootlog, logger, json_value>>

-----------------------------------------------------------------------------
(* Bounds and input sets *)

\* Total executions of a verb body the Retry wrapper allows for one call.
MaxTries == 3

\* The "*" element of a status_codes tuple (no status code has this value).
Star == 0

Url == "https://api.example/x"
Redirected == "https://api.example/y"
Urls == {Url}

StatusCodes == {200, 201, 404, 429, 500}

JsonBody == "{\"a\": 1}"
HtmlBody == "<html>"
Bodies == {JsonBody, HtmlBody}

\* allow_redirects as the caller gives it: <<>> when left to the default.
RedirectArgs == {<<>>, <<TRUE>>, <<FALSE>>}

\* status_codes as the caller gives it: tuple() by default.
StatusCodeArgs == {<<>>, <<201, 404, 429>>, <<Star>>}

\* Values the caller may assign to the session's allowed_status_codes.
SessionStatusCodes == {<<200>>, <<201, Star>>}

-----------------------------------------------------------------------------
(* Python values *)

\* x in t, for a tuple t
In(x, t) == \E i \in DOMAIN t : t[i] = x

\* a or b, for tuples (an empty tuple is falsy)
Or(a, b) == IF a # <<>> THEN a ELSE b

\* str(n) of a status code, as an f-string renders it
Str(n) ==
    CASE n = 200 -> "200"
      [] n = 201 -> "201"
      [] n = 404 -> "404"
      [] n = 429 -> "429"
      [] n = 500 -> "500"

\* method.upper()
Upper(method) ==
    CASE method = "get" -> "GET"
      [] method = "post" -> "POST"
      [] method = "head" -> "HEAD"
      [] method = "patch" -> "PATCH"

-----------------------------------------------------------------------------
(* The transport (requests.Session and requests.Response) *)

Reason(status_code) ==
    CASE status_code = 200 -> "OK"
      [] status_code = 201 -> "Created"
      [] status_code = 404 -> "Not Found"
      [] status_code = 429 -> "Too Many Requests"
      [] status_code = 500 -> "Internal Server Error"

\* The raw responses the transport can return to a call: the response's url
\* is the requested one unless a redirect was followed.
RawResponses(url, allow_redirects) ==
    { [url |-> u, status_code |-> s, reason |-> Reason(s), text |-> t] :
        u \in (IF allow_redirects THEN {url, Redirected} ELSE {url}),
        s \in StatusCodes,
        t \in Bodies }

\* request.raise_for_status(): <<>> when it returns, <<HTTPError>> when it
\* raises, which it does for 4xx and 5xx only.
raise_for_status(raw) ==
    IF 400 <= raw.status_code /\ raw.status_code < 600
    THEN << [type |-> "HTTPError",
             message |-> << Str(raw.status_code),
                            IF raw.status_code < 500 THEN " Client Error: "
                                                     ELSE " Server Error: ",
                            raw.reason, " for url: ", raw.url >>] >>
    ELSE <<>>

\* request.json(): the parsed body, or ValueError
ParseJson(text) ==
    IF text = JsonBody THEN [ok |-> TRUE, value |-> <<"a", "1">>]
                       ELSE [ok |-> FALSE, value |-> <<>>]

ConnectionError == [type |-> "ConnectionError", message |-> <<>>]

-----------------------------------------------------------------------------
(* lib/exceptions.py *)

\* LogException.__init__: log(message), then Exception.__init__(message).
\* The result holds the record handed to the log sink and the exception.
LogException(type, message, log) ==
    [raised |-> << [type |-> type, message |-> message] >>,
     root   |-> << [level |-> log, message |-> message] >>]

UnexpectedStatusCode(url, status_code, reason, request_text) ==
    LogException("UnexpectedStatusCode",
                 << "Unexpected status code for '", url,
                    "'; received status_code: ", Str(status_code),
                    ", reason: '", reason, "', text: '", request_text, "'." >>,
                 "error")

UnexpectedRequestResult(status_code, reason, request_text) ==
    LogException("UnexpectedRequestResult",
                 << "Unexpected request result, received: ", Str(status_code),
                    " - ", reason, "\n", request_text, "." >>,
                 "error")

\* Variant: the rate-limit error goes to the default sink (error severity).
RateLimitedError_default_sink(url, status_code, reason) ==
    LogException("RateLimitedError",
                 << "Experienced rate limiting on '", url,
                    "'; received status_code: ", Str(status_code),
                    ", reason: '", reason, "'." >>,
                 "error")

RateLimitedError(url, status_code, reason) ==
    LogException("RateLimitedError",
                 << "Experienced rate limiting on '", url,
                    "'; received status_code: ", Str(status_code),
                    ", reason: '", reason, "'." >>,
                 "debug")

-----------------------------------------------------------------------------
(* Response *)

Response(request_) == [request |-> request_]

Response_url(self) == self.request.url
Response_status_code(self) == self.request.status_code
Response_reason(self) == self.request.reason
Response_text(self) == self.request.text

\* str(request.__dict__), by the attributes the model keeps
Dict(raw) == "{url: " \o raw.url \o ", status_code: " \o Str(raw.status_code)
             \o ", reason: " \o raw.reason \o ", text: " \o raw.text \o "}"

\* Variant: a body that does not parse yields no value and no error.
Response_json_swallow(self) ==
    LET parsed == ParseJson(self.request.text) IN
    [raised |-> <<>>, root |-> <<>>,
     returned |-> IF parsed.ok THEN <<parsed.value>> ELSE <<>>]

\* Response.json: the parsed body, or UnexpectedRequestResult on ValueError
Response_json(self) ==
    LET parsed == ParseJson(self.request.text) IN
    IF parsed.ok
    THEN [raised |-> <<>>, root |-> <<>>, returned |-> <<parsed.value>>]
    ELSE LET e == UnexpectedRequestResult(Response_status_code(self),
                                          Response_reason(self),
                                          Dict(self.request))
         IN [raised |-> e.raised, root |-> e.root, returned |-> <<>>]

-----------------------------------------------------------------------------
(* Request._request *)

\* line 96
RateLimited(raw) == raw.status_code = 429

\* Variant: the caller's status_codes do not replace the session's list.
Disallowed_session_only(raw, status_codes) ==
    /\ ~In(raw.status_code, allowed_status_codes)
    /\ ~In(Star, status_codes)
    /\ raw.status_code # 200

\* Variant: every 2xx status passes, not 200 alone.
Disallowed_2xx(raw, status_codes) ==
    /\ ~In(raw.status_code, Or(status_codes, allowed_status_codes))
    /\ ~In(Star, status_codes)
    /\ ~(200 <= raw.status_code /\ raw.status_code < 300)

\* lines 98-99: the status is neither allowed nor 200
Disallowed(raw, status_codes) ==
    /\ ~In(raw.status_code, Or(status_codes, allowed_status_codes))
    /\ ~In(Star, status_codes)
    /\ raw.status_code # 200

\* Variant: raise_for_status is not called.
Reject_typed_only(raw) ==
    UnexpectedStatusCode(raw.url, raw.status_code, raw.reason, raw.text)

\* Variant: 404 is escalated like any other status.
Reject_404_native(raw) ==
    IF raise_for_status(raw) # <<>>
    THEN [raised |-> raise_for_status(raw), root |-> <<>>]
    ELSE UnexpectedStatusCode(raw.url, raw.status_code, raw.reason, raw.text)

\* lines 100-102: what a disallowed status raises
Reject(raw) ==
    IF raw.status_code # 404 /\ raise_for_status(raw) # <<>>
    THEN [raised |-> raise_for_status(raw), root |-> <<>>]
    ELSE UnexpectedStatusCode(raw.url, raw.status_code, raw.reason, raw.text)

\* Variant: the allow-list is consulted before the 429 check.
_request_allow_list_first(method, url, status_codes, raw) ==
    LET traced == << "HTTP ", Upper(method), " (", Str(raw.status_code), ")" >>
        accepted == << "Acceptable ", Upper(method), " status code '",
                       Str(raw.status_code), "' for '", url, "'." >>
    IN  IF ~Disallowed(raw, status_codes)
        THEN [raised |-> <<>>, root |-> <<>>,
              debug |-> <<traced, accepted>>, returned |-> <<raw>>]
        ELSE IF RateLimited(raw)
        THEN LET e == RateLimitedError(raw.url, raw.status_code, raw.reason)
             IN [raised |-> e.raised, root |-> e.root,
                 debug |-> <<traced>>, returned |-> <<>>]
        ELSE LET e == Reject(raw)
             IN [raised |-> e.raised, root |-> e.root,
                 debug |-> <<traced>>, returned |-> <<>>]

\* lines 95-104, given the raw response the transport returned
_request(method, url, status_codes, raw) ==
    LET traced == << "HTTP ", Upper(method), " (", Str(raw.status_code), ")" >>
        accepted == << "Acceptable ", Upper(method), " status code '",
                       Str(raw.status_code), "' for '", url, "'." >>
    IN  IF RateLimited(raw)
        THEN LET e == RateLimitedError(raw.url, raw.status_code, raw.reason)
             IN [raised |-> e.raised, root |-> e.root,
                 debug |-> <<traced>>, returned |-> <<>>]
        ELSE IF Disallowed(raw, status_codes)
        THEN LET e == Reject(raw)
             IN [raised |-> e.raised, root |-> e.root,
                 debug |-> <<traced>>, returned |-> <<>>]
        ELSE [raised |-> <<>>, root |-> <<>>,
              debug |-> <<traced, accepted>>, returned |-> <<raw>>]

-----------------------------------------------------------------------------
(* The verbs *)

\* Defaults of allow_redirects in the verbs' signatures
get_allow_redirects == TRUE
post_allow_redirects == TRUE
\* Variant: head follows redirects like the other verbs.
head_follows_redirects == TRUE
head_allow_redirects == FALSE
patch_allow_redirects == TRUE

\* The caller calls the verb, or the Retry wrapper calls it again with the
\* arguments the caller gave.
Invoke(method, url, allow_redirects, status_codes) ==
    LET given == [method |-> method, url |-> url,
                  allow_redirects |-> allow_redirects,
                  status_codes |-> status_codes]
    IN  /\ \/ pc = "idle"
           \/ pc = "retry" /\ args = <<given>>
        /\ args' = <<given>>

\* Variant: the verb drops what _request returned.
Returned_nothing(r) == <<>>

\* return Response(self._request(...)): what the verb returns, if anything
Returned(r) == IF r.raised = <<>> THEN <<Response(r.returned[1])>> ELSE <<>>

\* One execution of a verb's body: the debug line, the transport call made
\* by _request, and the wrapping of what _request returns.
Verb(method, url, allow_redirects, status_codes) ==
    LET making == << "Making a ", Upper(method), " request to '", url, "'" >>
    IN  /\ tries' = tries + 1
        /\ sent' = << [method |-> method, url |-> url,
                       allow_redirects |-> allow_redirects] >>
        /\ \/ \E raw \in RawResponses(url, allow_redirects) :
                LET r == _request(method, url, status_codes, raw) IN
                /\ request' = <<raw>>
                /\ logger' = (logger \o <<making>>) \o r.debug
                /\ rootlog' = rootlog \o r.root
                /\ exc' = r.raised
                /\ response' = Returned(r)
                /\ pc' = IF r.raised = <<>> THEN "returned" ELSE "failed"
           \/ /\ request' = <<>>
              /\ logger' = logger \o <<making>>
              /\ exc' = <<ConnectionError>>
              /\ pc' = "failed"
              /\ UNCHANGED <<rootlog, response>>
        /\ UNCHANGED <<allowed_status_codes, sleeps, json_value>>

get ==
    \E url \in Urls, allow_redirects \in RedirectArgs,
       status_codes \in StatusCodeArgs :
        /\ Invoke("get", url, allow_redirects, status_codes)
        /\ Verb("get", url,
                Or(allow_redirects, <<get_allow_redirects>>)[1], status_codes)

post ==
    \E url \in Urls, allow_redirects \in RedirectArgs,
       status_codes \in StatusCodeArgs :
        /\ Invoke("post", url, allow_redirects, status_codes)
        /\ Verb("post", url,
                Or(allow_redirects, <<post_allow_redirects>>)[1], status_codes)

head ==
    \E url \in Urls, allow_redirects \in RedirectArgs,
       status_codes \in StatusCodeArgs :
        /\ Invoke("head", url, allow_redirects, status_codes)
        /\ Verb("head", url,
                Or(allow_redirects, <<head_allow_redirects>>)[1], status_codes)

patch ==
    \E url \in Urls, allow_redirects \in RedirectArgs,
       status_codes \in StatusCodeArgs :
        /\ Invoke("patch", url, allow_redirects, status_codes)
        /\ Verb("patch", url,
                Or(allow_redirects, <<patch_allow_redirects>>)[1], status_codes)

-----------------------------------------------------------------------------
(* The Retry wrapper around each verb *)

\* An attempt failed and attempts are left: wait, then call the verb again.
Retry_catch ==
    /\ pc = "failed"
    /\ tries < MaxTries
    /\ sleeps' = sleeps + 1
    /\ pc' = "retry"
    /\ request' = <<>>
    /\ exc' = <<>>
    /\ UNCHANGED <<allowed_status_codes, args, tries, sent, response,
                   rootlog, logger, json_value>>

\* The last attempt failed: its exception reaches the caller.
Retry_exhausted ==
    /\ pc = "failed"
    /\ tries >= MaxTries
    /\ pc' = "raised"
    /\ UNCHANGED <<allowed_status_codes, args, tries, sleeps, sent, request,
                   response, exc, rootlog, logger, json_value>>

-----------------------------------------------------------------------------
(* The caller *)

\* The caller assigns the session's allowed_status_codes before calling.
set_allowed_status_codes ==
    /\ pc = "idle"
    /\ \E codes \in SessionStatusCodes : allowed_status_codes' = codes
    /\ UNCHANGED <<pc, args, tries, sleeps, sent, request, response, exc,
                   rootlog, logger, json_value>>

\* The caller reads the json property of the Response it was returned.
json ==
    /\ pc = "returned"
    /\ LET r == Response_json(response[1]) IN
        /\ exc' = r.raised
        /\ rootlog' = rootlog \o r.root
        /\ json_value' = r.returned
        /\ pc' = IF r.raised = <<>> THEN "json_returned" ELSE "json_raised"
    /\ UNCHANGED <<allowed_status_codes, args, tries, sleeps, sent, request,
                   response, logger>>

-----------------------------------------------------------------------------
Init ==
    /\ allowed_status_codes = <<200>>
    /\ pc = "idle"
    /\ args = <<>>
    /\ tries = 0
    /\ sleeps = 0
    /\ sent = <<>>
    /\ request = <<>>
    /\ response = <<>>
    /\ exc = <<>>
    /\ rootlog = <<>>
    /\ logger = <<>>
    /\ json_value = <<>>

Next ==
    \/ set_allowed_status_codes
    \/ get
    \/ post
    \/ head
    \/ patch
    \/ Retry_catch
    \/ Retry_exhausted
    \/ json

Spec == Init /\ [][Next]_vars

\* The calling thread runs on: a verb call that can proceed does, and the
\* Retry wrapper's wait ends.
FairSpec ==
    /\ Spec
    /\ WF_vars(get \/ post \/ head \/ patch)
    /\ WF_vars(Retry_catch)
    /\ WF_vars(Retry_exhausted)

-----------------------------------------------------------------------------
(* Properties *)

\* A verb body has just run on a raw response of the transport.
AttemptDone == pc \in {"failed", "returned"} /\ request # <<>>

\* The allow-list in effect for the call: the caller's status_codes, else
\* the session's allowed_status_codes.
Effective == IF args[1].status_codes # <<>> THEN args[1].status_codes
                                            ELSE allowed_status_codes

\* The call returned a Response wrapping the attempt's raw response.
ReturnedResponse ==
    /\ pc = "returned"
    /\ exc = <<>>
    /\ response = << [request |-> request[1]] >>

\* The attempt raised an exception of this type and returned nothing.
Raised(type) ==
    /\ pc = "failed"
    /\ exc # <<>>
    /\ exc[1].type = type
    /\ response = <<>>

\* C1 as claimed: a status in the caller's status_codes, or in the session's
\* list when the caller gave none, is returned wrapped and without error.
C1_AllowedIsReturned_AsClaimed ==
    AttemptDone =>
        LET s == request[1].status_code IN
        (\/ In(s, args[1].status_codes)
         \/ args[1].status_codes = <<>> /\ In(s, allowed_status_codes))
        => ReturnedResponse

\* C1, amended: a status other than 429 that is in the caller's
\* status_codes, or in the session's list when the caller gave none, is
\* returned wrapped and without error.
C1_AllowedIsReturned ==
    AttemptDone =>
        LET s == request[1].status_code IN
        (/\ s # 429
         /\ \/ In(s, args[1].status_codes)
            \/ args[1].status_codes = <<>> /\ In(s, allowed_status_codes))
        => ReturnedResponse

C1_Witness ==
    /\ ReturnedResponse
    /\ args[1].status_codes = <<>>
    /\ allowed_status_codes = <<201, Star>>
    /\ request[1].status_code = 201

\* The status is outside the allow-list in effect, no wildcard is present,
\* and it is none of 200, 404, 429.
C2_Case ==
    /\ AttemptDone
    /\ ~In(request[1].status_code, Effective)
    /\ ~In(Star, Effective)
    /\ ~In(Star, args[1].status_codes)
    /\ request[1].status_code \notin {200, 404, 429}

\* C2 as claimed: every such status ends the attempt with the transport's
\* HTTPError.
C2_NativeError_AsClaimed == C2_Case => Raised("HTTPError")

\* C2, amended: such a status ends the attempt with the transport's
\* HTTPError when it is a 4xx or 5xx, and with UnexpectedStatusCode
\* otherwise (raise_for_status returns for 1xx, 2xx and 3xx).
C2_NativeError ==
    C2_Case =>
        IF 400 <= request[1].status_code /\ request[1].status_code < 600
        THEN Raised("HTTPError")
        ELSE /\ Raised("UnexpectedStatusCode")
             /\ In(Str(request[1].status_code), exc[1].message)

C2_Witness ==
    /\ C2_Case
    /\ request[1].status_code = 500
    /\ Raised("HTTPError")
    /\ args[1].method = "post"

\* C3 as claimed: with "*" in the allow-list in effect, every status other
\* than 429 is returned wrapped and without error.
C3_Wildcard_AsClaimed ==
    (AttemptDone /\ In(Star, Effective) /\ request[1].status_code # 429)
    => ReturnedResponse

\* The status was judged acceptable against the allow-list in effect.
C4_Acceptable ==
    \/ In(request[1].status_code, Effective)
    \/ In(Star, Effective)

\* C4 as claimed: a Response exists only for an acceptable status or a 404,
\* any other status raises before a Response is made, and a 200 outside
\* the allow-list in effect never occurs.
C4_ResponseOnlyIfAccepted_AsClaimed ==
    /\ response # <<>> =>
          (C4_Acceptable \/ response[1].request.status_code = 404)
    /\ (AttemptDone /\ ~C4_Acceptable /\ request[1].status_code # 404)
          => (pc = "failed" /\ exc # <<>> /\ response = <<>>)
    /\ AttemptDone => (request[1].status_code = 200 => C4_Acceptable)

\* C4, amended: a Response exists only for an acceptable status, a 200 or a
\* 404; any other status raises before a Response is made; a 200 outside
\* the allow-list in effect can occur and is accepted.
C4_ResponseOnlyIfAccepted ==
    /\ response # <<>> =>
          (\/ C4_Acceptable
           \/ response[1].request.status_code = 200
           \/ response[1].request.status_code = 404)
    /\ (AttemptDone /\ ~C4_Acceptable
                    /\ request[1].status_code \notin {200, 404})
          => (pc = "failed" /\ exc # <<>> /\ response = <<>>)
    /\ (AttemptDone /\ request[1].status_code = 200) => ReturnedResponse

C4_Witness ==
    /\ ReturnedResponse
    /\ request[1].status_code = 200
    /\ args[1].status_codes = <<201, 404, 429>>

\* C5 as claimed: a 429 always ends the attempt with RateLimitedError,
\* whose message carries the requested url, 429 and the reason, whatever
\* the allow-list holds; no Response wraps a 429.
C5_RateLimited_AsClaimed ==
    /\ (AttemptDone /\ request[1].status_code = 429) =>
          /\ Raised("RateLimitedError")
          /\ In(args[1].url, exc[1].message)
          /\ In("429", exc[1].message)
          /\ In(request[1].reason, exc[1].message)
    /\ response # <<>> => response[1].request.status_code # 429

\* C5, amended: a 429 always ends the attempt with RateLimitedError, whose
\* message carries the url of the transport's response (request.url, which
\* is not the requested url once a redirect was followed), 429 and the
\* reason, whatever the allow-list holds; no Response wraps a 429.
C5_RateLimited ==
    /\ (AttemptDone /\ request[1].status_code = 429) =>
          /\ Raised("RateLimitedError")
          /\ exc[1].message[2] = request[1].url
          /\ In("429", exc[1].message)
          /\ In(request[1].reason, exc[1].message)
    /\ response # <<>> => response[1].request.status_code # 429

C5_Witness ==
    /\ AttemptDone
    /\ request[1].status_code = 429
    /\ request[1].url = Redirected
    /\ args[1].url = Url
    /\ In(429, args[1].status_codes)
    /\ Raised("RateLimitedError")

\* C6: a 404 outside the allow-list in effect, with no wildcard, ends the
\* attempt with UnexpectedStatusCode carrying url, 404, reason and body
\* text, never with the transport's HTTPError.
C6_NotFound ==
    (/\ AttemptDone
     /\ request[1].status_code = 404
     /\ ~In(404, Effective)
     /\ ~In(Star, Effective)
     /\ ~In(Star, args[1].status_codes))
    => /\ Raised("UnexpectedStatusCode")
       /\ exc[1].type # "HTTPError"
       /\ In(request[1].url, exc[1].message)
       /\ In("404", exc[1].message)
       /\ In(request[1].reason, exc[1].message)
       /\ In(request[1].text, exc[1].message)

C6_Witness ==
    /\ AttemptDone
    /\ request[1].status_code = 404
    /\ args[1].status_codes = <<>>
    /\ allowed_status_codes = <<200>>
    /\ request[1].text = HtmlBody
    /\ Raised("UnexpectedStatusCode")

\* The call is over for the caller.
Over == pc \in {"returned", "raised", "json_returned", "json_raised"}

\* C7, state part: an attempt within the retry bound that gets an allowed
\* status returns its Response, after one wait per earlier failure; an
\* error reaches the caller only from the last attempt allowed.
C7_Returns ==
    /\ (/\ AttemptDone
        /\ tries <= MaxTries
        /\ request[1].status_code # 429
        /\ In(request[1].status_code, Effective))
       => (ReturnedResponse /\ sleeps = tries - 1)
    /\ pc = "raised" => (tries = MaxTries /\ exc # <<>>)
    /\ pc = "returned" => exc = <<>>
    /\ tries <= MaxTries

\* C7, step part: an attempt starts from the caller's call or after a
\* failed attempt and one wait, and a wait follows a failed attempt only.
C7_Sequential ==
    /\ tries' # tries =>
          /\ tries' = tries + 1
          /\ \/ pc = "idle" /\ tries = 0
             \/ pc = "retry" /\ sleeps = tries
    /\ sleeps' # sleeps =>
          (pc = "failed" /\ sleeps' = sleeps + 1 /\ pc' = "retry")

\* C7: a call whose first attempts fail and whose next attempt, within the
\* retry bound, gets an allowed status returns a Response; attempts are
\* sequential, each after the failure of the one before and a wait; a
\* failed attempt is always followed by the call's end or a new attempt.
C7_RetryThenReturn ==
    /\ []C7_Returns
    /\ [][C7_Sequential]_vars
    /\ (pc \in {"failed", "retry"}) ~> Over

C7_Witness ==
    /\ ReturnedResponse
    /\ tries = 3
    /\ sleeps = 2
    /\ args[1].method = "get"
    /\ logger[2][4] = "429"
    /\ logger[4][4] = "429"
    /\ logger[6][4] = "200"
    /\ Len(rootlog) = 2

\* C8: reading json returns the transport's parsed body when the body
\* parses, and raises UnexpectedRequestResult with the response's status
\* code and reason in its message when it does not; the wrapped raw
\* response is the one the transport returned, before and after.
C8_Json ==
    /\ pc = "json_returned" =>
          /\ ParseJson(response[1].request.text).ok
          /\ json_value = <<ParseJson(response[1].request.text).value>>
          /\ exc = <<>>
    /\ pc = "json_raised" =>
          /\ ~ParseJson(response[1].request.text).ok
          /\ json_value = <<>>
          /\ exc # <<>>
          /\ exc[1].type = "UnexpectedRequestResult"
          /\ exc[1].message[2] = Str(response[1].request.status_code)
          /\ exc[1].message[4] = response[1].request.reason
    /\ pc \in {"json_returned", "json_raised"} =>
          response = << [request |-> request[1]] >>

C8_Witness ==
    /\ pc = "json_raised"
    /\ response[1].request.status_code = 201
    /\ response[1].request.text = HtmlBody
    /\ exc[1].type = "UnexpectedRequestResult"

\* C9: the redirect flag the transport gets on every attempt is the
\* caller's allow_redirects when given, else False for head and True for
\* get, post and patch.
C9_RedirectFlag ==
    sent # <<>> =>
        sent[1].allow_redirects =
            IF args[1].allow_redirects # <<>>
            THEN args[1].allow_redirects[1]
            ELSE args[1].method # "head"

C9_Witness ==
    /\ sent # <<>>
    /\ tries = 2
    /\ args[1].method = "head"
    /\ args[1].allow_redirects = <<>>
    /\ sent[1].allow_redirects = FALSE

\* The typed errors of lib/exceptions.py
TypedErrors ==
    {"UnexpectedStatusCode", "UnexpectedRequestResult", "RateLimitedError"}

\* A step that raises a typed error appends exactly one record to the
\* root log, holding the error's message, at debug severity for
\* RateLimitedError and at error severity for the other two, also when the
\* Retry wrapper then catches the error; no other step writes to it.
C10_LogOnConstruction ==
    IF exc' # <<>> /\ exc' # exc /\ exc'[1].type \in TypedErrors
    THEN rootlog' = Append(rootlog,
                      [level |-> IF exc'[1].type = "RateLimitedError"
                                 THEN "debug" ELSE "error",
                       message |-> exc'[1].message])
    ELSE rootlog' = rootlog

\* C10: every step of the program logs a typed error it raises exactly once,
\* at the error's severity, when the error is made, and logs nothing else
\* to the root log.
C10_LogsBeforeRaise == [][C10_LogOnConstruction]_vars

C10_Witness ==
    /\ pc = "retry"
    /\ Len(rootlog) = 2
    /\ rootlog[1].level = "debug"
    /\ rootlog[2].level = "error"

====
